---------------------------- MODULE Spec2Model ----------------------------
(***************************************************************************)
(* Model of backend/app/core/rules_engine.py: the annotation-only rules    *)
(* engine.  Text is a sequence of characters (one-character strings), the  *)
(* regular expressions of the source are terms interpreted by a small      *)
(* backtracking-equivalent matcher, and scan is a state machine whose      *)
(* steps are the sentence loop and the rule loop of the source.            *)
(***************************************************************************)
EXTENDS Naturals, Sequences, FiniteSets, TLC

(***************************************************************************)
(* Characters                                                              *)
(***************************************************************************)

\* A string literal as the sequence of its characters.
Chars(str) == [k \in 1..Len(str) |-> SubSeq(str, k, k)]

\* U+00A0, the non-breaking space: one character, written here by name.
NBSP == "U+00A0"

\* None, the missing text: a value that is not a sequence of characters.
None == <<"None">>

\* What str.strip() strips and what \s matches, among the characters used.
Whitespace == {" ", "\t", "\n", "\r", "\f", NBSP}

Digits == {"0", "1", "2", "3", "4", "5", "6", "7", "8", "9"}

UpperCase == Chars("ABCDEFGHIJKLMNOPQRSTUVWXYZ")
LowerCase == Chars("abcdefghijklmnopqrstuvwxyz")

LowerOf == [u \in {UpperCase[k] : k \in 1..26} |->
              LowerCase[CHOOSE k \in 1..26 : UpperCase[k] = u]]

\* Case folding of re.IGNORECASE.
Fold(ch) == IF ch \in DOMAIN LowerOf THEN LowerOf[ch] ELSE ch

Min(a, b) == IF a <= b THEN a ELSE b

MaxOf(S) == CHOOSE x \in S : \A y \in S : y <= x

(***************************************************************************)
(* Regular expressions, as the source writes them                          *)
(***************************************************************************)

Lit(str)     == [t |-> "lit", w |-> Chars(str)]     \* literal text
Cls(c)       == [t |-> "cls", c |-> c]               \* one character of a class
Star(c)      == [t |-> "star", c |-> c]              \* c* and c*?
Plus(c)      == [t |-> "plus", c |-> c]              \* c+
Alt(a)       == [t |-> "alt", a |-> a]               \* r1|r2|...
Cat(a)       == [t |-> "cat", a |-> a]               \* r1 r2 ...
Opt(r)       == [t |-> "opt", r |-> r]               \* r?
NotAhead(r)  == [t |-> "notahead", r |-> r]          \* (?!r)
Behind(c)    == [t |-> "behind", c |-> c]            \* (?<=[c])

\* Character classes: . (no newline), \s, \d, [ \t], [\.\?\!], [- ], \n.
InClass(c, ch) ==
    CASE c = "dot"    -> ch # "\n"
      [] c = "space"  -> ch \in Whitespace
      [] c = "digit"  -> ch \in Digits
      [] c = "blank"  -> ch \in {" ", "\t"}
      [] c = "term"   -> ch \in {".", "?", "!"}
      [] c = "dashsp" -> ch \in {"-", " "}
      [] c = "nl"     -> ch = "\n"

\* The positions just after the first i-1 characters of s at which a run of
\* class-c characters starting at i can end, the empty run included.
RunEnds(c, s, i) ==
    LET lim == CHOOSE j \in i..(Len(s) + 1) :
                  /\ j = Len(s) + 1 \/ ~InClass(c, s[j])
                  /\ \A k \in i..(j - 1) : InClass(c, s[k])
    IN  i..lim

RECURSIVE Ends(_, _, _, _), EndsCat(_, _, _, _, _)

\* Ends(re, s, i, ic): every position j such that re matches s[i..j-1]; ic is
\* re.IGNORECASE.  A backtracking matcher finds a match at i exactly when this
\* set is not empty.
Ends(re, s, i, ic) ==
    CASE re.t = "lit" ->
           IF /\ i + Len(re.w) - 1 <= Len(s)
              /\ \A k \in 1..Len(re.w) :
                    IF ic THEN Fold(s[i + k - 1]) = Fold(re.w[k])
                          ELSE s[i + k - 1] = re.w[k]
           THEN {i + Len(re.w)} ELSE {}
      [] re.t = "cls" ->
           IF i <= Len(s) /\ InClass(re.c, s[i]) THEN {i + 1} ELSE {}
      [] re.t = "star" -> RunEnds(re.c, s, i)
      [] re.t = "plus" -> RunEnds(re.c, s, i) \ {i}
      [] re.t = "alt" ->
           UNION {Ends(re.a[n], s, i, ic) : n \in DOMAIN re.a}
      [] re.t = "cat" -> EndsCat(re.a, 1, s, i, ic)
      [] re.t = "opt" -> {i} \cup Ends(re.r, s, i, ic)
      [] re.t = "notahead" ->
           IF Ends(re.r, s, i, ic) = {} THEN {i} ELSE {}
      [] re.t = "behind" ->
           IF i > 1 /\ InClass(re.c, s[i - 1]) THEN {i} ELSE {}

EndsCat(a, n, s, i, ic) ==
    IF n > Len(a) THEN {i}
    ELSE UNION {EndsCat(a, n + 1, s, j, ic) : j \in Ends(a[n], s, i, ic)}

\* bool(rx.search(s)): the pattern matches somewhere in s.
Search(re, s, ic) == \E i \in 1..(Len(s) + 1) : Ends(re, s, i, ic) # {}

\* The end of the match the matcher returns at i, 0 when there is none: the
\* first alternative that matches wins, and its greedy repetition runs as far
\* as it can.
FirstEnd(re, s, i) ==
    IF re.t = "alt"
    THEN LET ok == {n \in DOMAIN re.a : Ends(re.a[n], s, i, FALSE) # {}}
         IN  IF ok = {} THEN 0
             ELSE MaxOf(Ends(re.a[CHOOSE n \in ok : \A m \in ok : n <= m],
                             s, i, FALSE))
    ELSE LET e == Ends(re, s, i, FALSE)
         IN  IF e = {} THEN 0 ELSE MaxOf(e)

\* The start of the leftmost match of re in s at or after pos, 0 when none.
NextMatch(re, s, pos) ==
    IF \E k \in pos..Len(s) : FirstEnd(re, s, k) # 0
    THEN CHOOSE k \in pos..Len(s) :
            /\ FirstEnd(re, s, k) # 0
            /\ \A m \in pos..(k - 1) : FirstEnd(re, s, m) = 0
    ELSE 0

RECURSIVE ReSplitFrom(_, _, _)

\* re.split from position start on: the pieces between the matches.  The
\* patterns split on here never match the empty string.
ReSplitFrom(re, s, start) ==
    LET k == NextMatch(re, s, start)
    IN  IF k = 0 THEN <<SubSeq(s, start, Len(s))>>
        ELSE <<SubSeq(s, start, k - 1)>>
               \o ReSplitFrom(re, s, FirstEnd(re, s, k))

ReSplit(re, s) == ReSplitFrom(re, s, 1)

RECURSIVE Join(_, _)

\* sep.join(parts)
Join(parts, sep) ==
    IF Len(parts) = 0 THEN <<>>
    ELSE IF Len(parts) = 1 THEN parts[1]
    ELSE parts[1] \o sep \o Join(Tail(parts), sep)

\* re.sub(re, repl, s) for a pattern that never matches the empty string.
ReSub(re, repl, s) == Join(ReSplit(re, s), repl)

\* str.replace(old, new) for a one-character old.
Replace(s, old, new) == [k \in 1..Len(s) |-> IF s[k] = old THEN new ELSE s[k]]

\* str.strip()
Strip(s) ==
    LET n    == Len(s)
        lead == CHOOSE k \in 0..n :
                   /\ \A m \in 1..k : s[m] \in Whitespace
                   /\ k = n \/ s[k + 1] \notin Whitespace
        trail == CHOOSE k \in 0..(n - lead) :
                   /\ \A m \in 1..k : s[n - m + 1] \in Whitespace
                   /\ k = n - lead \/ s[n - k] \notin Whitespace
    IN  SubSeq(s, lead + 1, n - trail)

(***************************************************************************)
(* The patterns of the rule set                                            *)
(***************************************************************************)

VAGUE_VERBS ==
    Alt(<<Lit("aim"), Lit("seek"), Lit("strive"), Lit("endeavor"),
          Lit("commit"), Lit("pledge"), Lit("work towards"), Lit("aspire"),
          Lit("intend"), Lit("plan to")>>)

TARGET_WORDS ==
    Alt(<<Lit("target"), Lit("goal"), Lit("objective"), Lit("commitment")>>)

YEAR_OR_BASELINE ==
    Alt(<<Cat(<<Lit("20"), Cls("digit"), Cls("digit")>>),
          Lit("baseline"),
          Cat(<<Lit("base"), Star("space"), Lit("year")>>),
          Cat(<<Lit("reference"), Star("space"), Lit("year")>>),
          Cat(<<Lit("from"), Star("space"), Lit("20"),
                Cls("digit"), Cls("digit")>>)>>)

SCOPE2_AMBIG ==
    Alt(<<Lit("renewable electricity"), Lit("green electricity")>>)

SCOPE2_QUAL ==
    Alt(<<Cat(<<Lit("market"), Cls("dashsp"), Lit("based")>>),
          Cat(<<Lit("location"), Cls("dashsp"), Lit("based")>>),
          Lit("dual reporting"), Lit("residual mix"), Lit("REC"), Lit("GO"),
          Lit("guarantee of origin"), Lit("retire"), Lit("cancel")>>)

AVOIDED_EMISSIONS ==
    Alt(<<Lit("avoided emissions"), Lit("enabled emissions")>>)

AVOIDED_QUAL ==
    Alt(<<Lit("separate"), Lit("disclose"),
          Cat(<<Lit("outside"), Plus("space"), Lit("inventory")>>)>>)

CHERRY ==
    Alt(<<Cat(<<Lit("only"), Plus("space"), Lit("scope"), Star("space"),
                Lit("1"), Star("space"), Lit("/"), Star("space"), Lit("2")>>),
          Cat(<<Lit("scope"), Star("space"), Lit("3"), Star("space"),
                Alt(<<Lit("excluded"), Lit("later"), Lit("deferred")>>)>>)>>)

NEUTRAL_OFFSET ==
    Cat(<<Alt(<<Lit("carbon neutral"), Lit("climate neutral")>>),
          Star("dot"),
          Alt(<<Lit("via"), Lit("through"), Lit("using")>>),
          Star("dot"),
          Alt(<<Lit("offset"), Lit("credit")>>),
          Opt(Lit("s"))>>)

THIRD_PARTY_STD ==
    Alt(<<Cat(<<Lit("PAS"), Star("space"), Lit("2060")>>),
          Lit("Verra"),
          Cat(<<Lit("Gold"), Star("space"), Lit("Standard")>>),
          Lit("ICROA"),
          Cat(<<Lit("ISAE"), Star("space"), Lit("3000")>>),
          Lit("AA1000")>>)

\* As Unmitigated, had the lookahead no ".*": only a mitigating term that
\* follows the trigger at once would count.
Unmitigated_adjacent(trigger, mitigation) ==
    Cat(<<trigger, NotAhead(mitigation)>>)

\* trigger(?!.*mitigation): the trigger with nothing mitigating after it.
Unmitigated(trigger, mitigation) ==
    Cat(<<trigger, NotAhead(Cat(<<Star("dot"), mitigation>>))>>)

RX_901 == VAGUE_VERBS
RX_102 == Unmitigated(TARGET_WORDS, YEAR_OR_BASELINE)
RX_402 == Unmitigated(SCOPE2_AMBIG, SCOPE2_QUAL)
RX_303 == Unmitigated(AVOIDED_EMISSIONS, AVOIDED_QUAL)
RX_202 == CHERRY
RX_302 == Unmitigated(NEUTRAL_OFFSET, THIRD_PARTY_STD)

\* The rule table: (category, compiled pattern, id), in table order.
_RULES ==
    << [cat |-> "vague",        rx |-> RX_901, rule_id |-> 901],
       [cat |-> "lack_metrics", rx |-> RX_102, rule_id |-> 102],
       [cat |-> "misleading",   rx |-> RX_402, rule_id |-> 402],
       [cat |-> "misleading",   rx |-> RX_303, rule_id |-> 303],
       [cat |-> "cherry",       rx |-> RX_202, rule_id |-> 202],
       [cat |-> "no_3rd",       rx |-> RX_302, rule_id |-> 302] >>

(***************************************************************************)
(* Helpers                                                                 *)
(***************************************************************************)

_SENT_SPLIT ==
    Alt(<<Cat(<<Behind("term"), Plus("space")>>), Plus("nl")>>)

\* Python truthiness of the text argument: None and "" are falsy.
Truthy(text) == text # None /\ text # <<>>

\* The exception text.replace raises when text is None, as a value.
AttributeError == <<"AttributeError">>

\* As _normalize, without the "if not text" guard before text.replace.
_normalize_unguarded(text) ==
    IF text = None THEN AttributeError
    ELSE Strip(ReSub(Plus("blank"), <<" ">>, Replace(text, NBSP, " ")))

_normalize(text) ==
    IF ~Truthy(text) THEN <<>>
    ELSE IF text = None THEN AttributeError
    ELSE Strip(ReSub(Plus("blank"), <<" ">>, Replace(text, NBSP, " ")))

\* As _split_sentences, had the kept parts not been stripped.
_split_sentences_unstripped(text) ==
    LET t     == _normalize(text)
        parts == ReSplit(_SENT_SPLIT, t)
    IN  IF t = AttributeError THEN AttributeError
        ELSE IF ~Truthy(t) THEN <<>>
        ELSE SelectSeq(parts, LAMBDA p : p # <<>> /\ Strip(p) # <<>>)

_split_sentences(text) ==
    LET t     == _normalize(text)
        parts == ReSplit(_SENT_SPLIT, t)
        kept  == SelectSeq(parts, LAMBDA p : p # <<>> /\ Strip(p) # <<>>)
    IN  IF t = AttributeError THEN AttributeError
        ELSE IF ~Truthy(t) THEN <<>>
        ELSE [k \in 1..Len(kept) |-> Strip(kept[k])]


(***************************************************************************)
(* scan                                                                    *)
(***************************************************************************)

\* sent[:400]
SnippetLen == 400

\* As Snippet, had the hit kept the sentence whole.
Snippet_whole(sent) == sent

Snippet(sent) == SubSeq(sent, 1, Min(SnippetLen, Len(sent)))

RuleHit(cat, rule_id, sent, idx) ==
    [cat |-> cat, rule_id |-> rule_id, text |-> Snippet(sent), sent_idx |-> idx]

\* has_third_party of the sentence loop.
HasThirdParty(sent) == Search(THIRD_PARTY_STD, sent, TRUE)

\* As Skipped, had the whitelist been left out of the rule loop.
Skipped_never(cat, third_party, company) == FALSE

\* As Skipped, had a named company been whitelisted for every rule.
Skipped_for_company(cat, third_party, company) ==
    (cat = "no_3rd" /\ third_party) \/ company # None

\* The continue of the rule loop: the rule is not tried on this sentence.
Skipped(cat, third_party, company) == cat = "no_3rd" /\ third_party

\* As AfterRule, had the body appended a hit for each match of the pattern
\* (a loop over rx.finditer) and not one for the sentence.
AfterRule_each_match(hits, rule, sent, idx, third_party, company) ==
    IF Skipped(rule.cat, third_party, company) THEN hits
    ELSE hits \o [n \in 1..Cardinality({p \in 1..(Len(sent) + 1) :
                                           Ends(rule.rx, sent, p, TRUE) # {}})
                    |-> RuleHit(rule.cat, rule.rule_id, sent, idx)]

\* The hit list after one pass of the rule loop's body.
AfterRule(hits, rule, sent, idx, third_party, company) ==
    IF Skipped(rule.cat, third_party, company) THEN hits
    ELSE IF Search(rule.rx, sent, TRUE)
         THEN Append(hits, RuleHit(rule.cat, rule.rule_id, sent, idx))
         ELSE hits

RECURSIVE Dec(_)

\* str(n) of a natural number.
Dec(n) ==
    LET d == <<"0", "1", "2", "3", "4", "5", "6", "7", "8", "9">>
    IN  IF n < 10 THEN <<d[n + 1]>> ELSE Dec(n \div 10) \o <<d[(n % 10) + 1]>>

\* The f-string of notes.
Notes(nsents, nhits) ==
    Chars("sentences=") \o Dec(nsents) \o Chars("; hits=") \o Dec(nhits)
       \o Chars("; whitelist_in_sent=third_party")

RECURSIVE RulesFrom(_, _, _, _, _, _, _), SentsFrom(_, _, _, _, _)

\* The rule loop from table position k on, run to its end without a break.
RulesFrom(table, k, hits, sent, idx, third_party, company) ==
    IF k > Len(table) THEN hits
    ELSE RulesFrom(table, k + 1,
                   AfterRule(hits, table[k], sent, idx, third_party, company),
                   sent, idx, third_party, company)

\* The sentence loop from index idx on, run to its end without a break.
SentsFrom(table, ss, idx, hits, company) ==
    IF idx >= Len(ss) THEN hits
    ELSE SentsFrom(table, ss, idx + 1,
                   RulesFrom(table, 1, hits, ss[idx + 1], idx,
                             HasThirdParty(ss[idx + 1]), company),
                   company)

\* scan(text, company) run alone from call to return.
scan(table, t, co) ==
    LET ss == _split_sentences(t)
        hs == SentsFrom(table, ss, 0, <<>>, co)
    IN  [hits |-> hs, notes |-> Notes(Len(ss), Len(hs))]

(***************************************************************************)
(* Calls of scan as a state machine                                        *)
(***************************************************************************)

\* The calls that may be in progress at once.
NumCalls == 2
Calls == 1..NumCalls

VARIABLES
    suite,            \* the family of documents the callers submit
    rules,            \* the module-level rule table _RULES
    pc,               \* per call: idle, split, sent, rule, notes, done, raised
    text, company,    \* per call: the arguments
    sents, hits,      \* per call: the locals sents and hits
    i, r,             \* per call: sentence index, rule-table position
    has_third_party,  \* per call: the flag of the current sentence
    notes             \* per call: the notes of the returned result

vars == <<suite, rules, pc, text, company, sents, hits, i, r,
          has_third_party, notes>>

\* As HitsOf, had hits been one module-level list that every call appends to.
HitsOf_shared(c) == 1

\* The list a call's hits are kept in: its own local.
HitsOf(c) == c

(***************************************************************************)
(* The documents the callers submit                                        *)
(***************************************************************************)

\* The most tokens, and the most characters, a document is put together from.
MaxTokens == 3
MaxChars == 4

RECURSIVE Texts(_, _)

\* The texts put together from at most n tokens of V.
Texts(V, n) ==
    IF n = 0 THEN {<<>>}
    ELSE LET T == Texts(V, n - 1)
         IN  T \cup {t \o w : t \in T, w \in V}

\* A run of 397 letters: with a word behind it the sentence passes 400.
Pad == [k \in 1..397 |-> "x"]

\* Neutrality claims with and without a marker before and after them.
WhitelistTokens ==
    {Chars("We are carbon neutral through offsets"),
     Chars("Climate Neutral using credits"),
     Chars(" verified under PAS 2060"),
     Chars("gold  standard: "),
     Chars("Verra "),
     Chars(". ")}

\* A sentence that every rule fires on, repeated triggers, several sentences.
AllSix ==
    Chars("We aim for our goal with green electricity and avoided emissions, only scope 1/2, carbon neutral via offsets")

OrderTokens ==
    {AllSix, Chars("aim aim"), Chars(" goal"), Chars(". "), <<"\n">>}

\* Triggers and mitigating terms of the rules 102, 402 and 303.
MitigationTokens ==
    {Chars("target "), Chars("2030 "), Chars("base year "),
     Chars("green electricity "), Chars("market-based "),
     Chars("avoided emissions "), Chars("disclose "), Chars(". ")}

\* Words around the 400 character mark.
SnippetTokens == {Chars("aim"), Chars(" goal"), Chars(". ")}

\* Every text over these characters, and the missing text.
SplitAlphabet == {"a", "b", ".", " ", "\t", NBSP, "\n", "\r"}

\* The sentences of the shape of Scenario 3, one per target word.
Words == {Chars("target"), Chars("goal"), Chars("objective"), Chars("commitment")}
Shape(word, tail) == Chars("Our ") \o word \o Chars(" is net zero") \o tail \o <<".">>
Years == {Chars(" by 2030"), Chars(" by 2045")}

\* The markers of THIRD_PARTY_STD as they are written.
Markers ==
    {Chars("PAS 2060"), Chars("Verra"), Chars("Gold Standard"),
     Chars("ICROA"), Chars("ISAE 3000"), Chars("AA1000")}

MarkerBases ==
    {Chars("Our target is net zero"), Chars("We use renewable electricity"),
     Chars("We aim to report avoided emissions"),
     Chars("We are carbon neutral through offsets"),
     Chars("We report only scope 1/2"), Chars("We plant trees")}

\* Documents scanned at the same time, and documents scanned for companies.
ConcTexts ==
    {Chars("We aim high. Our goal is set"),
     Chars("carbon neutral via offsets")}

CompanyTexts ==
    {Chars("We aim high. Our goal is set"),
     Chars("Verra: carbon neutral via credits"),
     Chars("carbon neutral via offsets")}

Documents(s) ==
    CASE s = "whitelist"  -> Texts(WhitelistTokens, MaxTokens)
      [] s = "order"      -> Texts(OrderTokens, MaxTokens)
      [] s = "mitigation" -> Texts(MitigationTokens, MaxTokens)
      [] s = "snippet"    -> {p \o b : p \in {<<>>, Pad},
                                       b \in Texts(SnippetTokens, MaxTokens)}
      [] s = "split"      -> {None} \cup Texts({<<ch>> : ch \in SplitAlphabet},
                                               MaxChars)
      [] s = "words"      -> {Shape(w, y) \o <<" ">> \o Shape(v, <<>>) :
                                 w \in Words, v \in Words, y \in Years}
      [] s = "markers"    -> {b \o <<"\n">> \o b \o <<" ">> \o m :
                                 b \in MarkerBases, m \in Markers}
      [] s = "concurrent" -> ConcTexts
      [] s = "company"    -> CompanyTexts

Companies(s) ==
    IF s = "company" THEN {None, Chars("Acme"), Chars("Globex")} ELSE {None}

Callers(s) ==
    CASE s = "concurrent" -> Calls
      [] s = "company"    -> {1, 2}
      [] OTHER            -> {1}

Call(c) ==
    /\ pc[c] = "idle"
    /\ c \in Callers(suite)
    /\ \E t \in Documents(suite), co \in Companies(suite) :
          /\ text' = [text EXCEPT ![c] = t]
          /\ company' = [company EXCEPT ![c] = co]
    /\ pc' = [pc EXCEPT ![c] = "split"]
    /\ UNCHANGED <<suite, rules, sents, hits, i, r, has_third_party, notes>>

\* sents = _split_sentences(text); hits = []
SplitStep(c) ==
    /\ pc[c] = "split"
    /\ LET ss == _split_sentences(text[c])
       IN  IF ss = AttributeError
           THEN /\ pc' = [pc EXCEPT ![c] = "raised"]
                /\ UNCHANGED <<sents, hits>>
           ELSE /\ pc' = [pc EXCEPT ![c] = "sent"]
                /\ sents' = [sents EXCEPT ![c] = ss]
                /\ hits' = [hits EXCEPT ![HitsOf(c)] = <<>>]
    /\ UNCHANGED <<suite, rules, text, company, i, r, has_third_party, notes>>

\* for i, sent in enumerate(sents): has_third_party = ...
SentenceStep(c) ==
    /\ pc[c] = "sent"
    /\ IF i[c] < Len(sents[c])
       THEN /\ has_third_party' =
                  [has_third_party EXCEPT ![c] = HasThirdParty(sents[c][i[c] + 1])]
            /\ r' = [r EXCEPT ![c] = 1]
            /\ pc' = [pc EXCEPT ![c] = "rule"]
       ELSE /\ pc' = [pc EXCEPT ![c] = "notes"]
            /\ UNCHANGED <<has_third_party, r>>
    /\ UNCHANGED <<suite, rules, text, company, sents, hits, i, notes>>

\* for cat, rx, rule_id in _RULES: one pass of the body, or the loop's end.
RuleStep(c) ==
    /\ pc[c] = "rule"
    /\ IF r[c] <= Len(rules)
       THEN /\ hits' = [hits EXCEPT ![HitsOf(c)] =
                          AfterRule(hits[HitsOf(c)], rules[r[c]],
                                    sents[c][i[c] + 1], i[c],
                                    has_third_party[c], company[c])]
            /\ r' = [r EXCEPT ![c] = r[c] + 1]
            /\ UNCHANGED <<pc, i>>
       ELSE /\ i' = [i EXCEPT ![c] = i[c] + 1]
            /\ pc' = [pc EXCEPT ![c] = "sent"]
            /\ UNCHANGED <<hits, r>>
    /\ UNCHANGED <<suite, rules, text, company, sents, has_third_party, notes>>

\* notes = f"..."; return RuleScanResult(hits=hits, notes=notes)
ReturnStep(c) ==
    /\ pc[c] = "notes"
    /\ notes' = [notes EXCEPT ![c] = Notes(Len(sents[c]), Len(hits[HitsOf(c)]))]
    /\ pc' = [pc EXCEPT ![c] = "done"]
    /\ UNCHANGED <<suite, rules, text, company, sents, hits, i, r,
                   has_third_party>>

InitOf(s) ==
    /\ suite = s
    /\ rules = _RULES
    /\ pc = [c \in Calls |-> "idle"]
    /\ text = [c \in Calls |-> <<>>]
    /\ company = [c \in Calls |-> None]
    /\ sents = [c \in Calls |-> <<>>]
    /\ hits = [c \in Calls |-> <<>>]
    /\ i = [c \in Calls |-> 0]
    /\ r = [c \in Calls |-> 1]
    /\ has_third_party = [c \in Calls |-> FALSE]
    /\ notes = [c \in Calls |-> <<>>]

Next ==
    \E c \in Calls :
        \/ Call(c)
        \/ SplitStep(c)
        \/ SentenceStep(c)
        \/ RuleStep(c)
        \/ ReturnStep(c)

\* One specification for each family of documents; Spec scans the neutrality
\* claims with and without markers.
Init == InitOf("whitelist")
Spec == Init /\ [][Next]_vars

SpecOrder      == InitOf("order") /\ [][Next]_vars
SpecMitigation == InitOf("mitigation") /\ [][Next]_vars
SpecSnippet    == InitOf("snippet") /\ [][Next]_vars
SpecSplit      == InitOf("split") /\ [][Next]_vars
SpecWords      == InitOf("words") /\ [][Next]_vars
SpecMarkers    == InitOf("markers") /\ [][Next]_vars
SpecConcurrent == InitOf("concurrent") /\ [][Next]_vars
SpecCompany    == InitOf("company") /\ [][Next]_vars
(***************************************************************************)
(* Properties                                                              *)
(***************************************************************************)

Done(c) == pc[c] = "done"

\* The sentence a hit of call c points at.
SentenceOf(c, h) == sents[c][h.sent_idx + 1]

\* The hits of call c for sentence k (0-based) and rule id.
HitsFor(c, k, id) ==
    {n \in DOMAIN hits[c] : hits[c][n].sent_idx = k /\ hits[c][n].rule_id = id}

RuleIds == {_RULES[p].rule_id : p \in DOMAIN _RULES}

\* The position in the rule table of the rule with this id.
RulePos(id) == CHOOSE p \in DOMAIN _RULES : _RULES[p].rule_id = id

\* C1 (whitelist law): no hit, at any moment of any scan, has category no_3rd
\* for a sentence in which a third-party marker occurs anywhere, whatever else
\* the sentence matches.
C1_Whitelist ==
    \A c \in Calls : \A n \in DOMAIN hits[c] :
        hits[c][n].cat = "no_3rd" =>
            \A p \in 1..Len(SentenceOf(c, hits[c][n])) :
                Ends(THIRD_PARTY_STD, SentenceOf(c, hits[c][n]), p, TRUE) = {}

\* A finished scan with a sentence that matches the whole no_3rd pattern (the
\* marker stands before the neutrality claim) and has no no_3rd hit.
C1_Witness ==
    \E c \in Calls :
        /\ Done(c)
        /\ \E k \in 0..(Len(sents[c]) - 1) :
              /\ Search(RX_302, sents[c][k + 1], TRUE)
              /\ Search(THIRD_PARTY_STD, sents[c][k + 1], TRUE)
              /\ HitsFor(c, k, 302) = {}

\* (sentence index, rule-table position) of hit g is below that of hit h.
KeyLess(g, h) ==
    \/ g.sent_idx < h.sent_idx
    \/ g.sent_idx = h.sent_idx /\ RulePos(g.rule_id) < RulePos(h.rule_id)

\* C2 (hit ordering): from each hit to the next the pair (sentence index,
\* rule-table position) strictly increases; so a rule has at most one hit per
\* sentence and a sentence at most six hits.
C2_HitOrder ==
    \A c \in Calls :
        /\ \A n \in 1..(Len(hits[c]) - 1) : KeyLess(hits[c][n], hits[c][n + 1])
        /\ \A k \in 0..(Len(sents[c]) - 1) :
              /\ \A id \in RuleIds : Cardinality(HitsFor(c, k, id)) <= 1
              /\ Cardinality({n \in DOMAIN hits[c] : hits[c][n].sent_idx = k}) <= 6

\* A finished scan with hits in two sentences: six hits for one, and one hit of
\* rule 901 for a sentence in which its pattern occurs twice.
C2_Witness ==
    \E c \in Calls :
        /\ Done(c)
        /\ \E k \in 0..(Len(sents[c]) - 1) :
              Cardinality({n \in DOMAIN hits[c] : hits[c][n].sent_idx = k}) = 6
        /\ \E k \in 0..(Len(sents[c]) - 1) :
              /\ Cardinality({p \in 1..Len(sents[c][k + 1]) :
                                Ends(RX_901, sents[c][k + 1], p, TRUE) # {}}) >= 2
              /\ Cardinality(HitsFor(c, k, 901)) = 1
        /\ \E g, h \in DOMAIN hits[c] : hits[c][g].sent_idx # hits[c][h].sent_idx

\* The negated rules: id, triggering terms, mitigating terms.
NegatedRules ==
    {[id |-> 102, trigger |-> TARGET_WORDS, mitigation |-> YEAR_OR_BASELINE],
     [id |-> 402, trigger |-> SCOPE2_AMBIG, mitigation |-> SCOPE2_QUAL],
     [id |-> 303, trigger |-> AVOIDED_EMISSIONS, mitigation |-> AVOIDED_QUAL]}

\* A mitigating term starts in s at or after position from.
MitigatedFrom(mitigation, s, from) ==
    \E q \in from..Len(s) : Ends(mitigation, s, q, TRUE) # {}

\* Some triggering term of s has no mitigating term after it.
TriggerUnmitigated(trigger, mitigation, s) ==
    \E p \in 1..Len(s) : \E e \in Ends(trigger, s, p, TRUE) :
        ~MitigatedFrom(mitigation, s, e)

\* C3 (presence with absence of mitigation): when a scan has finished, each of
\* the rules 102, 402 and 303 has a hit for a sentence exactly when some
\* triggering term of the rule in that sentence has no mitigating term of the
\* rule later in the sentence.
C3_Mitigation ==
    \A c \in Calls : Done(c) =>
        \A k \in 0..(Len(sents[c]) - 1) : \A q \in NegatedRules :
            (HitsFor(c, k, q.id) # {})
               <=> TriggerUnmitigated(q.trigger, q.mitigation, sents[c][k + 1])

\* A finished scan with a hit of rule 102 for a sentence whose first target
\* word has a year after it and whose later target word, after the year, has
\* none.
C3_Witness ==
    \E c \in Calls :
        /\ Done(c)
        /\ \E k \in 0..(Len(sents[c]) - 1) :
              LET s == sents[c][k + 1]
              IN  /\ HitsFor(c, k, 102) # {}
                  /\ \E p \in 1..Len(s) : \E e \in Ends(TARGET_WORDS, s, p, TRUE) :
                        /\ MitigatedFrom(YEAR_OR_BASELINE, s, e)
                        /\ \E p2 \in e..Len(s) :
                              Ends(TARGET_WORDS, s, p2, TRUE) # {}
\* C4 (hits refer to their sentence): every hit's sent_idx is an index of the
\* sentence list, its text is the first min(400, length) characters of that
\* sentence (at most 400, and the whole sentence when that has at most 400),
\* and its rule's pattern matches the sentence as a whole.
C4_Snippet ==
    \A c \in Calls : \A n \in DOMAIN hits[c] :
        LET h == hits[c][n]
        IN  /\ h.sent_idx >= 0 /\ h.sent_idx < Len(sents[c])
            /\ LET s == SentenceOf(c, h)
               IN  /\ Len(h.text) = Min(400, Len(s))
                   /\ \A k \in 1..Len(h.text) : h.text[k] = s[k]
                   /\ Len(h.text) <= 400
                   /\ Len(s) <= 400 => h.text = s
                   /\ Search(_RULES[RulePos(h.rule_id)].rx, s, TRUE)

\* A hit for a sentence longer than 400 characters whose 400 character text
\* does not itself match the hit's rule: the trigger lies past the cut.
C4_Witness ==
    \E c \in Calls : \E n \in DOMAIN hits[c] :
        LET h == hits[c][n]
        IN  /\ Len(SentenceOf(c, h)) > 400
            /\ Len(h.text) = 400
            /\ ~Search(_RULES[RulePos(h.rule_id)].rx, h.text, TRUE)

\* The text is missing, empty or nothing but whitespace.
Blank(t) == t = None \/ \A k \in DOMAIN t : t[k] \in Whitespace

\* C5 (totality): no call ends in an exception, and a call inside its loops
\* stands at a sentence and a rule-table position that exist; a returned
\* call's notes give the number of sentences split from its text and the
\* number of its hits; for a missing, empty or whitespace-only text there are
\* no sentences, no hits, and the notes say sentences=0 and hits=0.
C5_Total ==
    \A c \in Calls :
        /\ pc[c] # "raised"
        /\ pc[c] = "rule" => i[c] < Len(sents[c]) /\ r[c] <= Len(rules) + 1
        /\ Done(c) =>
              /\ Len(sents[c]) = Len(_split_sentences(text[c]))
              /\ notes[c] = Chars("sentences=") \o Dec(Len(sents[c]))
                              \o Chars("; hits=") \o Dec(Len(hits[c]))
                              \o Chars("; whitelist_in_sent=third_party")
              /\ Blank(text[c]) =>
                    /\ sents[c] = <<>>
                    /\ hits[c] = <<>>
                    /\ notes[c] =
                         Chars("sentences=0; hits=0; whitelist_in_sent=third_party")

\* A call with the missing text has returned.
C5_Witness == \E c \in Calls : Done(c) /\ text[c] = None

\* The characters of s that are not whitespace, in order.
NonSpace(s) == SelectSeq(s, LAMBDA ch : ch \notin Whitespace)

\* C8 (splitting is idempotent on its output): right after the split, every
\* sentence is non-empty, starts and ends with a character that is not
\* whitespace, holds no newline and no . ? ! followed by whitespace, and
\* splits into itself alone; and the sentences read one after another give
\* the text's non-whitespace characters in the text's order (none when the
\* text is missing).
C8_SplitIdempotent ==
    \A c \in Calls : (pc[c] = "sent" /\ i[c] = 0) =>
        /\ \A k \in DOMAIN sents[c] :
              LET s == sents[c][k]
              IN  /\ s # <<>>
                  /\ s[1] \notin Whitespace /\ s[Len(s)] \notin Whitespace
                  /\ \A n \in DOMAIN s : s[n] # "\n"
                  /\ \A n \in 1..(Len(s) - 1) :
                        ~(s[n] \in {".", "?", "!"} /\ s[n + 1] \in Whitespace)
                  /\ _split_sentences(s) = <<s>>
        /\ NonSpace(Join(sents[c], <<>>))
              = IF text[c] = None THEN <<>> ELSE NonSpace(text[c])

\* A text with a terminal mark and a tab or non-breaking space has been split
\* into two sentences or more.
C8_Witness ==
    \E c \in Calls :
        /\ pc[c] = "sent" /\ i[c] = 0
        /\ Len(sents[c]) >= 2
        /\ \E k \in DOMAIN text[c] : text[c][k] = "."
        /\ \E k \in DOMAIN text[c] : text[c][k] \in {"\t", NBSP}

\* C6 (concurrent scans are independent): however the steps of the calls
\* interleave, the rule table stays what it was at start-up, and every call
\* that has returned holds the hits and notes that scan gives when run alone
\* on its text.
C6_Independent ==
    /\ rules = _RULES
    /\ \A c \in Calls : Done(c) =>
          [hits |-> hits[c], notes |-> notes[c]]
             = scan(_RULES, text[c], company[c])

\* Two calls are inside their rule loops at once, each with hits of its own.
C6_Witness ==
    \E c, d \in Calls :
        /\ c # d
        /\ pc[c] = "rule" /\ pc[d] = "rule"
        /\ hits[c] # <<>> /\ hits[d] # <<>>
        /\ hits[c] # hits[d]

\* C7 (company is inert): two returned calls on the same text hold the same
\* hits and the same notes, whatever their company arguments.
C7_CompanyInert ==
    \A c, d \in Calls :
        (Done(c) /\ Done(d) /\ text[c] = text[d]) =>
            hits[c] = hits[d] /\ notes[c] = notes[d]

\* Two calls on the same text, one with a company and one without, have
\* returned with hits.
C7_Witness ==
    \E c, d \in Calls :
        /\ Done(c) /\ Done(d)
        /\ text[c] = text[d]
        /\ company[c] = None /\ company[d] # None
        /\ hits[c] # <<>>

\* The hits of call c for sentence k (0-based).
HitsIn(c, k) == {n \in DOMAIN hits[c] : hits[c][n].sent_idx = k}

\* C9 (target words are not vague verbs): in a finished scan, a sentence
\* "Our <word> is net zero by <year>." has no hit, and a sentence
\* "Our <word> is net zero." has exactly one hit, lack_metrics with
\* rule_id 102, for each of the words target, goal, objective, commitment.
C9_TargetWordsNotVague ==
    \A c \in Calls : Done(c) =>
        \A k \in 0..(Len(sents[c]) - 1) : \A w \in Words :
            /\ (\E y \in Years : sents[c][k + 1] = Shape(w, y))
                   => HitsIn(c, k) = {}
            /\ sents[c][k + 1] = Shape(w, <<>>)
                   => /\ Cardinality(HitsIn(c, k)) = 1
                      /\ \A n \in HitsIn(c, k) :
                            /\ hits[c][n].rule_id = 102
                            /\ hits[c][n].cat = "lack_metrics"

\* C10 (the whitelist is a marker's only effect): in a finished scan, when one
\* sentence is another with a marker appended, the two have the same hits of
\* the rules 901, 102, 402, 303 and 202, and the longer has a hit of rule 302
\* only if the shorter has.
C10_MarkerFrame ==
    \A c \in Calls : Done(c) =>
        \A j, k \in 0..(Len(sents[c]) - 1) : \A m \in Markers :
            sents[c][k + 1] = sents[c][j + 1] \o <<" ">> \o m =>
                /\ \A id \in RuleIds \ {302} :
                      (HitsFor(c, k, id) = {}) <=> (HitsFor(c, j, id) = {})
                /\ HitsFor(c, k, 302) # {} => HitsFor(c, j, 302) # {}
=============================================================================
